---- MODULE Spec2Model ----
(***************************************************************************)
(* Presence service: the in-memory PresenceStore (TTL-based expiry), the   *)
(* WebSocket adapter with its subscription registry and notifySubscribers, *)
(* and the HTTP presence routes.                                           *)
(*                                                                         *)
(* Time is the value of Date.now() in milliseconds.  Every Date.now() call *)
(* of the code is a separate read of the clock: a handler that reads the   *)
(* clock several times draws a non-decreasing sequence of reads.           *)
(***************************************************************************)
EXTENDS Integers, Sequences, FiniteSets, TLC

\* ------------------------------------------------------------------ bounds

\* user identifiers carried by messages and requests
Users == {"a", "b"}

\* WebSocket connections, in order of arrival
ConnOrder == <<"c1", "c2", "c3">>

Conns == {ConnOrder[i] : i \in 1..Len(ConnOrder)}

\* the clock is observed during MaxPeriods floor-TTL periods
MaxPeriods == 2

\* the clock advances by at most MaxSkew ms while one handler runs
MaxSkew == 1

\* the HTTP server holds at most MaxHttpSockets connections open
MaxHttpSockets == 1

\* the watcher creates at most MaxClients MongoClients and MaxStreams
\* ChangeStreams, and the collection changes at most MaxChanges times
MaxClients == 3

MaxStreams == 3

MaxChanges == 2

\* randomUUID() is called at most MaxInvites times
MaxInvites == 3

\* the userIds arrays given to getMany have at most MaxIds elements
MaxIds == 3

\* ------------------------------------------------------- program constants

\* Math.max(1_000, ...) in PresenceStore.upsert
MIN_TTL == 1000

\* msg.ttlMs || 60000 in the WebSocket heartbeat handler
WS_DEFAULT_TTL == 60000

\* PRESENCE_TTL_MS: z.coerce.number().default(60_000)
PRESENCE_TTL_MS == 60000

\* the values PRESENCE_TTL_MS takes: the default, and one below the floor
ConfiguredTtls == {PRESENCE_TTL_MS, 500}

\* the instants at which the clock is read: around every multiple of the floor
Instants == {k * MIN_TTL + j : k \in 1..MaxPeriods, j \in {-1, 0, 1}}

FirstInstant == MIN_TTL - 1

\* ------------------------------------------------------------ JS helpers

Max(x, y) == IF x >= y THEN x ELSE y

Range(s) == {s[i] : i \in 1..Len(s)}

\* Map.prototype.set / Map.prototype.delete on a Map modelled as a function
MapSet(m, k, v) == [x \in (DOMAIN m) \cup {k} |-> IF x = k THEN v ELSE m[x]]

\* variant of MapDelete: the key stays
MapKeeping(m, k) == m

MapDelete(m, k) == [x \in (DOMAIN m) \ {k} |-> m[x]]

EmptyMap == <<>>

\* an optional number (ttlMs?: number): {} when undefined, {n} otherwise
Undefined == {}

\* JavaScript values of the metadata and status fields that are not objects
UNDEF == "undefined"

NULL == "null"

EMPTY_OBJ == "{}"

\* ------------------------------------------------------------------ state

VARIABLES
  now,            \* the wall clock, Date.now()
  storeTtlMs,     \* PresenceStore.ttlMs, the configured default TTL
  store,          \* PresenceStore.store : Map<string, PresenceRecord>
  readyState,     \* ws.readyState of every connection
  userId,         \* the closure variable userId of every connection
  subscriptions,  \* subscriptions : Map<WebSocket, Subscription>
  sent,           \* what the last handler sent on every connection, in order
  lastOp,         \* the last handler that ran: its inputs, clock reads, result
  upserted,       \* per user, the arguments and time of the last upsert call
                  \* that no markOffline call has followed
  sweepTimer,     \* the timer of setInterval(() => store.cleanupExpired())
  server,         \* server = app.listen(port): the HTTP server
  httpSockets,    \* the connections the HTTP server holds open
  gracefulShutdown, \* where the call gracefulShutdown(signal) stands
  exited,         \* process.exit(0) has been called
  stopped,        \* userChangeWatcher: let stopped
  client,         \* userChangeWatcher: let client (0 is null)
  stream,         \* userChangeWatcher: let stream (0 is null)
  mongoClients,   \* every MongoClient object: none, open, failed or closed
  connecting,     \* the MongoClients whose connect() openStream is awaiting
  changeStreams,  \* every ChangeStream object: none, open, closed (its
                  \* "close" event still to come) or ended
  watched,        \* the MongoClient every ChangeStream was opened on
  closing,        \* the calls of closeStream awaiting a close(), counted by
                  \* what they await and by what follows them
  restartTimers,  \* the pending timers of setTimeout(openStream, ...)
  stopReturned,   \* the promise of stop() has resolved
  version,        \* playerDirectoryState.version
  invites,        \* InviteStore.invites : Map<string, InviteRecord>, in the
                  \* order of insertion (the order a Map iterates in)
  minted          \* how many ids randomUUID() has returned

\* the process around the store and the sockets
processVars == <<sweepTimer, server, httpSockets, gracefulShutdown, exited>>

\* what a call of closeStream awaits (stream.close() or client.close()) and
\* what follows it (the callback of scheduleRestart, or the return of stop)
Awaited == {"stream", "client"} \X {"restart", "stop"}

\* the user change watcher and the directory version it bumps
watcherVars == <<stopped, client, stream, mongoClients, connecting, changeStreams,
                 watched, closing, restartTimers, stopReturned, version>>

\* the invite store
inviteVars == <<invites, minted>>

\* the presence service proper
presenceVars == <<now, storeTtlMs, store, readyState, userId, subscriptions, upserted>>

vars == <<now, storeTtlMs, store, readyState, userId, subscriptions, sent, lastOp,
          upserted, processVars, watcherVars, inviteVars>>

\* --------------------------------------------------------------- the clock

\* A handler runs against a world: the store, the clock reads still to come
\* (clk, never empty) and the value t of the latest read.
World(st, clk) == [store |-> st, clk |-> clk, t |-> clk[1]]

DateNow(w) == w.clk[1]

\* the world after one Date.now() call
Read(w) == [w EXCEPT !.t = w.clk[1],
                     !.clk = IF Len(w.clk) > 1 THEN Tail(w.clk) ELSE w.clk]

\* the sequences of n clock reads a handler starting now can make: the clock
\* jumps at most once, by at most MaxSkew, while the handler runs
ClockReads(n) ==
  {[i \in 1..n |-> IF i < k THEN now ELSE now + d] :
      k \in 2..(n + 1), d \in {x \in 0..MaxSkew : now + x \in Instants}}

\* ----------------------------------------------------------- PresenceStore

\* variants of isExpired: a record still present at its expiry instant, and a
\* record dropped one millisecond early
isExpiredLate(record, t) == record.expiresAt < t

isExpiredEarly(record, t) == record.expiresAt <= t + 1

isExpired(record, t) == record.expiresAt <= t

toSnapshot(record, t) ==
  LET ttl == Max(0, record.expiresAt - t)
  IN [userId |-> record.userId, status |-> record.status,
      lastSeen |-> record.lastSeen, expiresAt |-> record.expiresAt,
      metadata |-> record.metadata, ttlMs |-> ttl, isOnline |-> ttl > 0]

\* variant of effectiveTtl: the override or the default, without the floor
effectiveTtlUnfloored(ovTtl) ==
  IF ovTtl = Undefined THEN storeTtlMs ELSE CHOOSE x \in ovTtl : TRUE

\* Math.max(1_000, overrides?.ttlMs ?? this.ttlMs)
effectiveTtl(ovTtl) ==
  Max(MIN_TTL, IF ovTtl = Undefined THEN storeTtlMs ELSE CHOOSE x \in ovTtl : TRUE)

\* the record upsert builds at clock read t
newRecord(user, status, ovTtl, ovMeta, t) ==
  [userId |-> user, status |-> status, lastSeen |-> t,
   expiresAt |-> t + effectiveTtl(ovTtl), metadata |-> ovMeta]

\* variant of upsert: metadata left out is taken from the record replaced
upsertMerging(w, user, status, ovTtl, ovMeta) ==
  LET meta == IF ovMeta \in {UNDEF, EMPTY_OBJ} /\ user \in DOMAIN w.store
              THEN w.store[user].metadata ELSE ovMeta
      record == newRecord(user, status, ovTtl, meta, DateNow(w))
      w1 == [Read(w) EXCEPT !.store = MapSet(w.store, user, record)]
  IN [w |-> Read(w1), ret |-> <<toSnapshot(record, DateNow(w1))>>]

\* upsert: one clock read for the record, one for the snapshot returned
upsert(w, user, status, ovTtl, ovMeta) ==
  LET record == newRecord(user, status, ovTtl, ovMeta, DateNow(w))
      w1 == [Read(w) EXCEPT !.store = MapSet(w.store, user, record)]
  IN [w |-> Read(w1), ret |-> <<toSnapshot(record, DateNow(w1))>>]

\* variant of markOffline: the whole map is cleared
markOfflineClearing(w, user) == [w EXCEPT !.store = EmptyMap]

\* markOffline: this.store.delete(userId)
markOffline(w, user) == [w EXCEPT !.store = MapDelete(w.store, user)]

\* getOne: no read when absent, one when expired, two when present
getOne(w, user) ==
  IF user \notin DOMAIN w.store THEN [w |-> w, ret |-> <<>>]
  ELSE IF isExpired(w.store[user], DateNow(w))
    THEN [w |-> [Read(w) EXCEPT !.store = MapDelete(w.store, user)], ret |-> <<>>]
    ELSE LET w1 == Read(w)
         IN [w |-> Read(w1), ret |-> <<toSnapshot(w.store[user], DateNow(w1))>>]

\* variant of deduped: the array as given
dedupedNot(ids) == ids

\* Array.from(new Set(userIds)): first occurrences, in order
RECURSIVE deduped(_)
deduped(ids) ==
  IF ids = <<>> THEN <<>>
  ELSE LET front == deduped(SubSeq(ids, 1, Len(ids) - 1))
           last == ids[Len(ids)]
       IN IF last \in Range(front) THEN front ELSE Append(front, last)

RECURSIVE getEach(_, _)
getEach(w, ids) ==
  IF ids = <<>> THEN [w |-> w, ret |-> <<>>]
  ELSE LET one == getOne(w, Head(ids))
           more == getEach(one.w, Tail(ids))
       IN [w |-> more.w, ret |-> one.ret \o more.ret]

getMany(w, userIds) == getEach(w, deduped(userIds))

\* variant of cleanupExpired: the expired entries are counted and left in the
\* Map
cleanupExpiredCounting(w, order) ==
  [w |-> [w EXCEPT !.t = w.clk[Len(w.clk)], !.clk = <<w.clk[Len(w.clk)]>>],
   removed |-> Cardinality({i \in 1..Len(order) :
                              isExpired(w.store[order[i]], DateNow(w))})]

\* variant of cleanupExpired: the walk ends after the first entry
cleanupExpiredOnce(w, order) ==
  IF order = <<>> THEN [w |-> w, removed |-> 0]
  ELSE LET user == Head(order)
           gone == isExpired(w.store[user], DateNow(w))
       IN [w |-> [w EXCEPT !.t = w.clk[Len(w.clk)], !.clk = <<w.clk[Len(w.clk)]>>,
                           !.store = IF gone THEN MapDelete(w.store, user) ELSE @],
           removed |-> IF gone THEN 1 ELSE 0]

\* cleanupExpired: the Map is walked in insertion order (order), one clock
\* read per entry
RECURSIVE cleanupExpired(_, _)
cleanupExpired(w, order) ==
  IF order = <<>> THEN [w |-> w, removed |-> 0]
  ELSE LET user == Head(order)
           gone == isExpired(w.store[user], DateNow(w))
           w1 == IF gone THEN [Read(w) EXCEPT !.store = MapDelete(w.store, user)]
                 ELSE Read(w)
           more == cleanupExpired(w1, Tail(order))
       IN [w |-> more.w, removed |-> more.removed + (IF gone THEN 1 ELSE 0)]

size(st) == Cardinality(DOMAIN st)

\* ------------------------------------------------------------ wire messages

\* a message sent to a client
Msg(type, user, requestId, users) ==
  [type |-> type, userId |-> user, requestId |-> requestId, users |-> users]

\* one element of the users array of a reply built from a store read
userEntry(snap) ==
  [userId |-> snap.userId,
   status |-> IF snap.isOnline THEN snap.status ELSE "offline",
   lastSeen |-> snap.lastSeen,
   metadata |-> IF snap.metadata = UNDEF THEN NULL ELSE snap.metadata]

\* variant of userEntries: no element at all
userEntriesNone(snaps) == <<>>

\* records.map((record) => ({ userId, status, lastSeen, metadata }))
userEntries(snaps) == [i \in 1..Len(snaps) |-> userEntry(snaps[i])]

\* an array element that is not a string
NON_STRING == "<number>"

\* msg.friendIds.filter(id => typeof id === "string")
onlyStrings(ids) == SelectSeq(ids, LAMBDA id : id # NON_STRING)

\* ---------------------------------------------------------- notifySubscribers

\* the update notifySubscribers builds: metadata is always null
presenceUpdate(friendId, status, lastSeen) ==
  Msg("friends-presence-update", "", "",
      <<[userId |-> friendId, status |-> status, lastSeen |-> lastSeen,
         metadata |-> NULL]>>)

\* variant of reached: every registered OPEN socket, whatever it watches
reachedAnyFriend(subs, friendId) == {ws \in DOMAIN subs : readyState[ws] = "OPEN"}

\* the entries notifySubscribers sends to: watching friendId, socket OPEN
reached(subs, friendId) ==
  {ws \in DOMAIN subs : friendId \in subs[ws] /\ readyState[ws] = "OPEN"}

\* The loop over subscriptions.entries(); failing is the set of sockets
\* whose send throws.  Returns the registry and the sockets delivered to.
notifySubscribers(subs, friendId, failing) ==
  [subscriptions |-> [ws \in (DOMAIN subs) \ (reached(subs, friendId) \cap failing)
                        |-> subs[ws]],
   delivered |-> reached(subs, friendId) \ failing]

\* variant of Outbox: the update comes before the replies
OutboxUpdateFirst(c, replies, delivered, update) ==
  [x \in Conns |-> (IF x \in delivered THEN <<update>> ELSE <<>>)
                   \o (IF x = c THEN replies ELSE <<>>)]

\* what a handler running on connection c leaves in every socket: its own
\* replies on c, then the update on every socket notifySubscribers delivered to
Outbox(c, replies, delivered, update) ==
  [x \in Conns |-> (IF x = c THEN replies ELSE <<>>)
                   \o (IF x \in delivered THEN <<update>> ELSE <<>>)]

NoConn == "none"

NoUser == "none"

\* the optional fields of a heartbeat, all left out
NoShape == [status |-> UNDEF, ttlMs |-> Undefined, metadata |-> UNDEF]

\* a parsed message or request body
WsMsg(type, user, shape, ids) ==
  [type |-> type, userId |-> user, status |-> shape.status, ttlMs |-> shape.ttlMs,
   metadata |-> shape.metadata, ids |-> ids, isArray |-> TRUE, requestId |-> UNDEF]

NoMsg == [type |-> "none", userId |-> UNDEF, status |-> UNDEF, ttlMs |-> Undefined,
          metadata |-> UNDEF, ids |-> <<>>, isArray |-> TRUE, requestId |-> UNDEF]

\* the message msg with userIds / friendIds left out or not an array
NotArray(msg) == [msg EXCEPT !.ids = <<>>, !.isArray = FALSE]

\* the record of the handler that just ran: the fields of the message or body
\* it was given, the first clock read, what the store returned, the sockets
\* whose send threw, and (prior) what the handler replaced or counted
Op(kind, c, user, msg, ret, failing, prior) ==
  [kind |-> kind, conn |-> c, userId |-> user, status |-> msg.status,
   ttlMs |-> msg.ttlMs, metadata |-> msg.metadata, ids |-> msg.ids, t |-> now,
   ret |-> ret, failed |-> failing, prior |-> prior]

\* the record the store held for user before the handler ran, if any
held(user) == IF user \in DOMAIN store THEN <<store[user]>> ELSE <<>>

\* upserted after the call upsert(user, status, {ttlMs: ovTtl, metadata:
\* ovMeta}) made now
afterUpsert(user, status, ovTtl, ovMeta) ==
  MapSet(upserted, user,
         [status |-> status, ttlMs |-> ovTtl, metadata |-> ovMeta, at |-> now])

\* upserted after the call markOffline(user)
afterMarkOffline(user) == MapDelete(upserted, user)

\* ------------------------------------------------- WebSocket message handler

\* what a handler that notifies nobody leaves in every socket
Replies(c, replies) == [x \in Conns |-> IF x = c THEN replies ELSE <<>>]

\* msg.status || "online"
wsStatus(msg) == IF msg.status = UNDEF THEN "online" ELSE msg.status

\* msg.ttlMs || 60000
wsTtl(msg) ==
  IF msg.ttlMs = Undefined \/ msg.ttlMs = {0} THEN {WS_DEFAULT_TTL} ELSE msg.ttlMs

\* msg.metadata || {}
wsMetadata(msg) == IF msg.metadata = UNDEF THEN EMPTY_OBJ ELSE msg.metadata

\* wss.on("connection"): a fresh closure with userId = null, no registry entry
Connect(c) ==
  /\ readyState[c] = "NONE"
  /\ \A i, j \in 1..Len(ConnOrder) :
        (ConnOrder[j] = c /\ i < j) => readyState[ConnOrder[i]] # "NONE"
  /\ readyState' = [readyState EXCEPT ![c] = "OPEN"]
  /\ userId' = [userId EXCEPT ![c] = NULL]
  /\ sent' = Replies(NoConn, <<>>)
  /\ lastOp' = Op("connect", c, NoUser, NoMsg, <<>>, {}, <<>>)
  /\ UNCHANGED <<upserted, now, storeTtlMs, store, subscriptions>>
  /\ UNCHANGED <<processVars, watcherVars, inviteVars>>

\* msg.type === "heartbeat" && msg.userId
Heartbeat(c, msg) ==
  /\ readyState[c] = "OPEN"
  /\ msg.type = "heartbeat" /\ msg.userId # UNDEF
  /\ \E clk \in ClockReads(2) :
       LET up == upsert(World(store, clk), msg.userId, wsStatus(msg), wsTtl(msg),
                        wsMetadata(msg))
           record == up.ret[1]
           status == IF record.isOnline THEN record.status ELSE "offline"
       IN \E failing \in SUBSET reached(subscriptions, msg.userId) :
            LET n == notifySubscribers(subscriptions, msg.userId, failing)
            IN /\ store' = up.w.store
               /\ now' = up.w.t
               /\ subscriptions' = n.subscriptions
               /\ sent' = Outbox(c, <<Msg("heartbeat-ack", msg.userId, "", <<>>)>>,
                                 n.delivered,
                                 presenceUpdate(msg.userId, status, record.lastSeen))
               /\ lastOp' = Op("heartbeat", c, msg.userId, msg, up.ret, failing,
                               held(msg.userId))
  /\ userId' = [userId EXCEPT ![c] = msg.userId]
  /\ upserted' = afterUpsert(msg.userId, wsStatus(msg), wsTtl(msg), wsMetadata(msg))
  /\ UNCHANGED <<storeTtlMs, readyState>>
  /\ UNCHANGED <<processVars, watcherVars, inviteVars>>

\* variant of goOffline: the record is read but not removed
goOfflineKeeping(w, user) ==
  LET got == getOne(w, user)
  IN [w |-> got.w,
      lastSeen |-> IF got.ret # <<>> THEN got.ret[1].lastSeen ELSE DateNow(got.w),
      ret |-> got.ret]

\* variant of goOffline: the record is removed before it is read
goOfflineRemovingFirst(w, user) ==
  [w |-> markOffline(Read(w), user), lastSeen |-> DateNow(w), ret |-> <<>>]

\* const record = store.getOne(userId);
\* const lastSeen = record?.lastSeen || Date.now();
\* store.markOffline(userId);
goOffline(w, user) ==
  LET got == getOne(w, user)
      known == got.ret # <<>> /\ got.ret[1].lastSeen # 0
  IN [w |-> markOffline(IF known THEN got.w ELSE Read(got.w), user),
      lastSeen |-> IF known THEN got.ret[1].lastSeen ELSE DateNow(got.w),
      ret |-> got.ret]

\* msg.type === "offline" && msg.userId
Offline(c, msg) ==
  /\ readyState[c] = "OPEN"
  /\ msg.type = "offline" /\ msg.userId # UNDEF
  /\ \E clk \in ClockReads(2) :
       LET off == goOffline(World(store, clk), msg.userId)
       IN \E failing \in SUBSET reached(subscriptions, msg.userId) :
            LET n == notifySubscribers(subscriptions, msg.userId, failing)
            IN /\ store' = off.w.store
               /\ now' = off.w.t
               /\ subscriptions' = n.subscriptions
               /\ sent' = Outbox(c, <<>>, n.delivered,
                                 presenceUpdate(msg.userId, "offline", off.lastSeen))
               /\ lastOp' = Op("offline", c, msg.userId, msg, off.ret, failing,
                               held(msg.userId))
  /\ userId' = [userId EXCEPT ![c] = msg.userId]
  /\ upserted' = afterMarkOffline(msg.userId)
  /\ UNCHANGED <<storeTtlMs, readyState>>
  /\ UNCHANGED <<processVars, watcherVars, inviteVars>>

\* variant of QueryPresence: the ids asked about become the watched set
QueryPresenceSubscribing(c, msg) ==
  /\ readyState[c] = "OPEN"
  /\ msg.type = "query-presence" /\ msg.isArray
  /\ \E clk \in ClockReads(2 * Len(msg.ids) + 1) :
       LET got == getMany(World(store, clk), onlyStrings(msg.ids))
       IN /\ store' = got.w.store
          /\ now' = got.w.t
          /\ sent' = Replies(c, <<Msg("presence-response", "", msg.requestId,
                                      userEntries(got.ret))>>)
          /\ lastOp' = Op("query-presence", c, NoUser, msg, got.ret, {}, <<>>)
  /\ subscriptions' = MapSet(subscriptions, c, Range(onlyStrings(msg.ids)))
  /\ UNCHANGED <<upserted, storeTtlMs, readyState, userId>>
  /\ UNCHANGED <<processVars, watcherVars, inviteVars>>

\* msg.type === "query-presence" && Array.isArray(msg.userIds)
QueryPresence(c, msg) ==
  /\ readyState[c] = "OPEN"
  /\ msg.type = "query-presence" /\ msg.isArray
  /\ \E clk \in ClockReads(2 * Len(msg.ids) + 1) :
       LET got == getMany(World(store, clk), onlyStrings(msg.ids))
       IN /\ store' = got.w.store
          /\ now' = got.w.t
          /\ sent' = Replies(c, <<Msg("presence-response", "", msg.requestId,
                                      userEntries(got.ret))>>)
          /\ lastOp' = Op("query-presence", c, NoUser, msg, got.ret, {}, <<>>)
  /\ UNCHANGED <<upserted, storeTtlMs, readyState, userId, subscriptions>>
  /\ UNCHANGED <<processVars, watcherVars, inviteVars>>

\* variant of subscribe: the new friends are added to the set already watched
subscribeAdding(subs, ws, friendIds) ==
  MapSet(subs, ws, Range(friendIds) \cup (IF ws \in DOMAIN subs THEN subs[ws] ELSE {}))

\* const sub = subscriptions.get(ws);
\* if (sub) sub.friendIds = new Set(friendIds);
\* else subscriptions.set(ws, { ws, friendIds: new Set(friendIds) });
subscribe(subs, ws, friendIds) == MapSet(subs, ws, Range(friendIds))

\* msg.type === "subscribe-friends" && Array.isArray(msg.friendIds)
SubscribeFriends(c, msg) ==
  /\ readyState[c] = "OPEN"
  /\ msg.type = "subscribe-friends" /\ msg.isArray
  /\ \E clk \in ClockReads(2 * Len(msg.ids) + 1) :
       LET friendIds == onlyStrings(msg.ids)
           got == getMany(World(store, clk), friendIds)
       IN /\ subscriptions' = subscribe(subscriptions, c, friendIds)
          /\ store' = got.w.store
          /\ now' = got.w.t
          /\ sent' = Replies(c, <<Msg("friends-presence-update", "", "",
                                      userEntries(got.ret))>>)
          /\ lastOp' = Op("subscribe-friends", c, NoUser, msg, got.ret, {},
                          IF c \in DOMAIN subscriptions THEN <<subscriptions[c]>>
                          ELSE <<>>)
  /\ UNCHANGED <<upserted, storeTtlMs, readyState, userId>>
  /\ UNCHANGED <<processVars, watcherVars, inviteVars>>

\* msg.type === "unsubscribe-friends"
UnsubscribeFriends(c, msg) ==
  /\ readyState[c] = "OPEN"
  /\ msg.type = "unsubscribe-friends"
  /\ subscriptions' = MapDelete(subscriptions, c)
  /\ sent' = Replies(NoConn, <<>>)
  /\ lastOp' = Op("unsubscribe-friends", c, NoUser, msg, <<>>, {}, <<>>)
  /\ UNCHANGED <<upserted, now, storeTtlMs, store, readyState, userId>>
  /\ UNCHANGED <<processVars, watcherVars, inviteVars>>

\* the conditions of the if / else-if chain of the message handler: msg
\* enters one of its five branches
handled(msg) ==
  \/ msg.type = "heartbeat" /\ msg.userId # UNDEF
  \/ msg.type = "offline" /\ msg.userId # UNDEF
  \/ msg.type = "query-presence" /\ msg.isArray
  \/ msg.type = "subscribe-friends" /\ msg.isArray
  \/ msg.type = "unsubscribe-friends"

\* variant of Ignored: a message that enters no branch gets the error reply
IgnoredWithError(c, msg) ==
  /\ readyState[c] = "OPEN"
  /\ ~handled(msg)
  /\ sent' = Replies(c, <<Msg("error", "", "", <<>>)>>)
  /\ lastOp' = Op("ignored", c, NoUser, msg, <<>>, {}, <<msg.type>>)
  /\ UNCHANGED <<upserted, now, storeTtlMs, store, readyState, userId, subscriptions>>
  /\ UNCHANGED <<processVars, watcherVars, inviteVars>>

\* a parsed message that enters no branch of the chain: the handler returns
\* without a reply; prior records the type of the message
Ignored(c, msg) ==
  /\ readyState[c] = "OPEN"
  /\ ~handled(msg)
  /\ sent' = Replies(NoConn, <<>>)
  /\ lastOp' = Op("ignored", c, NoUser, msg, <<>>, {}, <<msg.type>>)
  /\ UNCHANGED <<upserted, now, storeTtlMs, store, readyState, userId, subscriptions>>
  /\ UNCHANGED <<processVars, watcherVars, inviteVars>>

\* JSON.parse(data.toString()) throws, or yields null so that msg.type
\* throws: catch (e) { ws.send({ type: "error", error: "Invalid message" }) }
Unparseable(c) ==
  /\ readyState[c] = "OPEN"
  /\ sent' = Replies(c, <<Msg("error", "", "", <<>>)>>)
  /\ lastOp' = Op("unparseable", c, NoUser, NoMsg, <<>>, {}, <<>>)
  /\ UNCHANGED <<upserted, now, storeTtlMs, store, readyState, userId, subscriptions>>
  /\ UNCHANGED <<processVars, watcherVars, inviteVars>>

\* the peer starts the closing handshake: readyState leaves OPEN before the
\* "close" event is dispatched
BeginClose(c) ==
  /\ readyState[c] = "OPEN"
  /\ readyState' = [readyState EXCEPT ![c] = "CLOSING"]
  /\ sent' = Replies(NoConn, <<>>)
  /\ lastOp' = Op("closing", c, NoUser, NoMsg, <<>>, {}, <<>>)
  /\ UNCHANGED <<upserted, now, storeTtlMs, store, userId, subscriptions>>
  /\ UNCHANGED <<processVars, watcherVars, inviteVars>>

\* ws.on("close")
Close(c) ==
  /\ readyState[c] \in {"OPEN", "CLOSING"}
  /\ readyState' = [readyState EXCEPT ![c] = "CLOSED"]
  /\ LET subs == MapDelete(subscriptions, c)
     IN IF userId[c] = NULL
        THEN /\ subscriptions' = subs
             /\ sent' = Replies(NoConn, <<>>)
             /\ lastOp' = Op("close", c, NULL, NoMsg, <<>>, {}, <<>>)
             /\ UNCHANGED <<now, store, upserted>>
        ELSE \E clk \in ClockReads(2) :
               LET off == goOffline(World(store, clk), userId[c])
               IN \E failing \in SUBSET reached(subs, userId[c]) :
                    LET n == notifySubscribers(subs, userId[c], failing)
                    IN /\ store' = off.w.store
                       /\ now' = off.w.t
                       /\ subscriptions' = n.subscriptions
                       /\ sent' = Outbox(c, <<>>, n.delivered,
                                         presenceUpdate(userId[c], "offline",
                                                        off.lastSeen))
                       /\ upserted' = afterMarkOffline(userId[c])
                       /\ lastOp' = Op("close", c, userId[c], NoMsg, off.ret,
                                       failing, held(userId[c]))
  /\ UNCHANGED <<storeTtlMs, userId>>
  /\ UNCHANGED <<processVars, watcherVars, inviteVars>>

\* ------------------------------------------------------------- HTTP routes

\* heartbeatSchema.safeParse(req.body).success
heartbeatSchema(body) ==
  /\ body.userId \notin {UNDEF, ""}
  /\ body.status \in {UNDEF, "online", "away", "busy"}
  /\ \A x \in body.ttlMs : x > 0

\* POST /presence/heartbeat
HttpHeartbeat(body) ==
  /\ IF heartbeatSchema(body)
     THEN \E clk \in ClockReads(2) :
            LET status == IF body.status = UNDEF THEN "online" ELSE body.status
                up == upsert(World(store, clk), body.userId, status, body.ttlMs,
                             body.metadata)
            IN /\ store' = up.w.store
               /\ now' = up.w.t
               /\ upserted' = afterUpsert(body.userId, status, body.ttlMs, body.metadata)
               /\ lastOp' = Op("http-heartbeat", NoConn, body.userId, body, up.ret,
                               {}, held(body.userId))
     ELSE /\ lastOp' = Op("http-400", NoConn, NoUser, body, <<>>, {}, <<>>)
          /\ UNCHANGED <<store, now, upserted>>
  /\ sent' = Replies(NoConn, <<>>)
  /\ UNCHANGED <<storeTtlMs, readyState, userId, subscriptions>>
  /\ UNCHANGED <<processVars, watcherVars, inviteVars>>

\* POST /presence/offline
HttpOffline(body) ==
  /\ IF body.userId \notin {UNDEF, ""}
     THEN /\ store' = markOffline(World(store, <<now>>), body.userId).store
          /\ upserted' = afterMarkOffline(body.userId)
          /\ lastOp' = Op("http-offline", NoConn, body.userId, body, <<>>, {},
                          held(body.userId))
     ELSE /\ lastOp' = Op("http-400", NoConn, NoUser, body, <<>>, {}, <<>>)
          /\ UNCHANGED <<store, upserted>>
  /\ sent' = Replies(NoConn, <<>>)
  /\ UNCHANGED <<now, storeTtlMs, readyState, userId, subscriptions>>
  /\ UNCHANGED <<processVars, watcherVars, inviteVars>>

\* GET /presence/:userId
HttpGetOne(user) ==
  /\ \E clk \in ClockReads(2) :
       LET got == getOne(World(store, clk), user)
       IN /\ store' = got.w.store
          /\ now' = got.w.t
          /\ lastOp' = Op("http-get", NoConn, user, NoMsg, got.ret, {}, held(user))
  /\ sent' = Replies(NoConn, <<>>)
  /\ UNCHANGED <<upserted, storeTtlMs, readyState, userId, subscriptions>>
  /\ UNCHANGED <<processVars, watcherVars, inviteVars>>

\* GET /presence?userIds=...
HttpGetMany(ids) ==
  /\ ids # <<>>
  /\ \E clk \in ClockReads(2 * Len(ids) + 1) :
       LET got == getMany(World(store, clk), ids)
       IN /\ store' = got.w.store
          /\ now' = got.w.t
          /\ lastOp' = Op("http-get-many", NoConn, NoUser,
                          WsMsg("http", UNDEF, NoShape, ids), got.ret, {}, <<>>)
  /\ sent' = Replies(NoConn, <<>>)
  /\ UNCHANGED <<upserted, storeTtlMs, readyState, userId, subscriptions>>
  /\ UNCHANGED <<processVars, watcherVars, inviteVars>>

\* ------------------------------------------------------------ sweep, clock

\* store.upsert(userId, status, { ttlMs, metadata }) called by any client of
\* the exported class
Upsert(user, status, ovTtl, ovMeta) ==
  /\ \E clk \in ClockReads(2) :
       LET up == upsert(World(store, clk), user, status, ovTtl, ovMeta)
       IN /\ store' = up.w.store
          /\ now' = up.w.t
          /\ lastOp' = Op("upsert", NoConn, user,
                          [status |-> status, ttlMs |-> ovTtl, metadata |-> ovMeta,
                           ids |-> <<>>], up.ret, {}, held(user))
  /\ upserted' = afterUpsert(user, status, ovTtl, ovMeta)
  /\ sent' = Replies(NoConn, <<>>)
  /\ UNCHANGED <<storeTtlMs, readyState, userId, subscriptions>>
  /\ UNCHANGED <<processVars, watcherVars, inviteVars>>

Perms(S) ==
  {p \in [1..Cardinality(S) -> S] : \A i, j \in DOMAIN p : i # j => p[i] # p[j]}

\* variant of Sweep: the subscribers of a removed user are sent an "offline"
\* update
SweepNotifying ==
  /\ \E order \in Perms(DOMAIN store) :
       \E clk \in ClockReads(Len(order) + 1) :
         LET swept == cleanupExpired(World(store, clk), order)
             gone == (DOMAIN store) \ (DOMAIN swept.w.store)
         IN /\ store' = swept.w.store
            /\ now' = swept.w.t
            /\ lastOp' = [Op("sweep", NoConn, NoUser, NoMsg, <<>>, {}, <<>>)
                            EXCEPT !.prior = <<swept.removed>>]
            /\ sent' = [x \in Conns |->
                         IF \E u \in gone : x \in reached(subscriptions, u)
                         THEN LET u == CHOOSE u \in gone :
                                         x \in reached(subscriptions, u)
                              IN <<presenceUpdate(u, "offline", store[u].lastSeen)>>
                         ELSE <<>>]
  /\ UNCHANGED <<upserted, storeTtlMs, readyState, userId, subscriptions>>
  /\ UNCHANGED <<processVars, watcherVars, inviteVars>>

\* setInterval(() => store.cleanupExpired(), CLEANUP_INTERVAL_MS)
Sweep ==
  /\ \E order \in Perms(DOMAIN store) :
       \E clk \in ClockReads(Len(order) + 1) :
         LET swept == cleanupExpired(World(store, clk), order)
         IN /\ store' = swept.w.store
            /\ now' = swept.w.t
            /\ lastOp' = [Op("sweep", NoConn, NoUser, NoMsg, <<>>, {}, <<>>)
                            EXCEPT !.prior = <<swept.removed>>]
  /\ sent' = Replies(NoConn, <<>>)
  /\ UNCHANGED <<upserted, storeTtlMs, readyState, userId, subscriptions>>
  /\ UNCHANGED <<processVars, watcherVars, inviteVars>>

\* time passes between handlers
Tick ==
  /\ \E t \in Instants : t > now /\ now' = t
  /\ sent' = Replies(NoConn, <<>>)
  /\ lastOp' = Op("tick", NoConn, NoUser, NoMsg, <<>>, {}, <<>>)
  /\ UNCHANGED <<upserted, storeTtlMs, store, readyState, userId, subscriptions>>
  /\ UNCHANGED <<processVars, watcherVars, inviteVars>>

\* ------------------------------------------------------------ the process

\* the callback of setInterval runs, as long as the timer is there
TimerFires ==
  /\ sweepTimer = "active"
  /\ Sweep

\* a client opens a connection to the HTTP server, which is listening
HttpSocketOpen ==
  /\ server = "listening"
  /\ httpSockets < MaxHttpSockets
  /\ httpSockets' = httpSockets + 1
  /\ sent' = Replies(NoConn, <<>>)
  /\ lastOp' = Op("http-socket-open", NoConn, NoUser, NoMsg, <<>>, {}, <<>>)
  /\ UNCHANGED <<now, storeTtlMs, store, readyState, userId, subscriptions, upserted>>
  /\ UNCHANGED <<sweepTimer, server, gracefulShutdown, exited>>
  /\ UNCHANGED <<watcherVars, inviteVars>>

\* a connection of the HTTP server ends
HttpSocketEnd ==
  /\ httpSockets > 0
  /\ httpSockets' = httpSockets - 1
  /\ sent' = Replies(NoConn, <<>>)
  /\ lastOp' = Op("http-socket-end", NoConn, NoUser, NoMsg, <<>>, {}, <<>>)
  /\ UNCHANGED <<now, storeTtlMs, store, readyState, userId, subscriptions, upserted>>
  /\ UNCHANGED <<sweepTimer, server, gracefulShutdown, exited>>
  /\ UNCHANGED <<watcherVars, inviteVars>>

\* process.on(signal, () => void gracefulShutdown(signal)): the call runs up
\* to await stopPlayerDirectoryWatcher()
Signal ==
  /\ gracefulShutdown = "idle"
  /\ gracefulShutdown' = "stopping-watcher"
  /\ sent' = Replies(NoConn, <<>>)
  /\ lastOp' = Op("signal", NoConn, NoUser, NoMsg, <<>>, {}, <<>>)
  /\ UNCHANGED <<now, storeTtlMs, store, readyState, userId, subscriptions, upserted>>
  /\ UNCHANGED <<sweepTimer, server, httpSockets, exited>>
  /\ UNCHANGED <<watcherVars, inviteVars>>

\* gracefulShutdown resumes: server.close(() => process.exit(0)), and returns.
\* The HTTP server stops listening; it may drop its idle connections.
ServerClose ==
  /\ gracefulShutdown = "stopping-watcher"
  /\ gracefulShutdown' = "done"
  /\ server' = "closing"
  /\ httpSockets' \in {httpSockets, 0}
  /\ sent' = Replies(NoConn, <<>>)
  /\ lastOp' = Op("server-close", NoConn, NoUser, NoMsg, <<>>, {}, <<>>)
  /\ UNCHANGED <<now, storeTtlMs, store, readyState, userId, subscriptions, upserted>>
  /\ UNCHANGED <<sweepTimer, exited>>
  /\ UNCHANGED <<watcherVars, inviteVars>>

\* the callback of server.close: the HTTP server has no connection left and
\* emits "close"; process.exit(0)
Exit ==
  /\ server = "closing"
  /\ httpSockets = 0
  /\ server' = "closed"
  /\ exited' = TRUE
  /\ sent' = Replies(NoConn, <<>>)
  /\ lastOp' = Op("exit", NoConn, NoUser, NoMsg, <<>>, {}, <<>>)
  /\ UNCHANGED <<now, storeTtlMs, store, readyState, userId, subscriptions, upserted>>
  /\ UNCHANGED <<sweepTimer, httpSockets, gracefulShutdown>>
  /\ UNCHANGED <<watcherVars, inviteVars>>

\* --------------------------------------------------- the user change watcher

\* the closure of startUserChangeWatcher and the objects it has created
Watcher ==
  [stopped |-> stopped, client |-> client, stream |-> stream,
   mongoClients |-> mongoClients, connecting |-> connecting,
   changeStreams |-> changeStreams, watched |-> watched, closing |-> closing,
   restartTimers |-> restartTimers, stopReturned |-> stopReturned]

\* the watcher is left as w
Becomes(w) ==
  /\ stopped' = w.stopped
  /\ client' = w.client
  /\ stream' = w.stream
  /\ mongoClients' = w.mongoClients
  /\ connecting' = w.connecting
  /\ changeStreams' = w.changeStreams
  /\ watched' = w.watched
  /\ closing' = w.closing
  /\ restartTimers' = w.restartTimers
  /\ stopReturned' = w.stopReturned

\* what follows a call of closeStream: .finally(() => { if (stopped) return;
\* setTimeout(openStream, restartDelayMs) }) in scheduleRestart, the return in
\* stop
settled(w, then) ==
  IF then = "stop" THEN [w EXCEPT !.stopReturned = TRUE]
  ELSE IF w.stopped THEN w
  ELSE [w EXCEPT !.restartTimers = @ + 1]

\* closeStream from if (client): client.close() is called and awaited
closeClient(w, then) ==
  IF w.client # 0
  THEN [w EXCEPT !.mongoClients[w.client] = "closed",
                 !.closing[<<"client", then>>] = @ + 1]
  ELSE settled(w, then)

\* closeStream up to its first await: stream.close() is called and awaited;
\* the stream will emit "close" if it has not yet
closeStream(w, then) ==
  IF w.stream # 0
  THEN [w EXCEPT !.changeStreams[w.stream] = IF @ = "open" THEN "closed" ELSE @,
                 !.closing[<<"stream", then>>] = @ + 1]
  ELSE closeClient(w, then)

\* scheduleRestart: closeStream().finally(...)
scheduleRestart(w) == closeStream(w, "restart")

\* the objects not created yet
FreeClients == {k \in 1..MaxClients : mongoClients[k] = "none"}

FreeStreams == {k \in 1..MaxStreams : changeStreams[k] = "none"}

\* openStream up to await client.connect(): a new MongoClient k is assigned
\* to client, whatever client held
openStream(w, k) ==
  IF w.stopped THEN w
  ELSE [w EXCEPT !.client = k, !.mongoClients[k] = "open",
                 !.connecting = @ \cup {k}]

\* an action of the watcher: the presence service is not touched
WatcherStep(kind, w) ==
  /\ Becomes(w)
  /\ sent' = Replies(NoConn, <<>>)
  /\ lastOp' = Op(kind, NoConn, NoUser, NoMsg, <<>>, {}, <<>>)
  /\ UNCHANGED <<presenceVars, processVars, inviteVars>>

\* startUserChangeWatcher: openStream() is called once
StartWatcher ==
  /\ ~stopped
  /\ FreeClients = 1..MaxClients
  /\ WatcherStep("watcher-start", openStream(Watcher, 1))
  /\ UNCHANGED version

\* await client.connect() returns in the openStream that created k; it goes
\* on with the client variable as it is now: client.db() throws when it is
\* null (caught: scheduleRestart), otherwise a ChangeStream s is opened on
\* that client and assigned to stream, whatever stream held
ConnectResolves(k) ==
  /\ k \in connecting
  /\ LET w == [Watcher EXCEPT !.connecting = @ \ {k}]
     IN IF w.client = 0
        THEN WatcherStep("watcher-connected", scheduleRestart(w))
        ELSE /\ FreeStreams # {}
             /\ LET s == CHOOSE x \in FreeStreams : \A y \in FreeStreams : x <= y
                IN WatcherStep("watcher-connected",
                               [w EXCEPT !.stream = s, !.changeStreams[s] = "open",
                                         !.watched[s] = w.client])
  /\ UNCHANGED version

\* await client.connect() throws: catch, scheduleRestart()
ConnectRejects(k) ==
  /\ k \in connecting
  /\ LET w == [Watcher EXCEPT !.connecting = @ \ {k},
                              !.mongoClients[k] = IF @ = "open" THEN "failed" ELSE @]
     IN WatcherStep("watcher-connect-failed", scheduleRestart(w))
  /\ UNCHANGED version

\* stream.on("error"): the stream s fails, the driver closes it;
\* scheduleRestart()
StreamError(s) ==
  /\ changeStreams[s] = "open"
  /\ WatcherStep("watcher-stream-error",
                 scheduleRestart([Watcher EXCEPT !.changeStreams[s] = "closed"]))
  /\ UNCHANGED version

\* stream.on("close"): the stream s, closed by a close() or by the server,
\* emits "close"; if (!stopped) scheduleRestart()
StreamClose(s) ==
  /\ changeStreams[s] \in {"open", "closed"}
  /\ LET w == [Watcher EXCEPT !.changeStreams[s] = "ended"]
     IN WatcherStep("watcher-stream-close",
                    IF w.stopped THEN w ELSE scheduleRestart(w))
  /\ UNCHANGED version

\* await stream.close() returns in a closeStream: stream = null, then the
\* rest of closeStream
StreamCloseReturns(then) ==
  /\ closing[<<"stream", then>>] > 0
  /\ LET w == [Watcher EXCEPT !.closing[<<"stream", then>>] = @ - 1, !.stream = 0]
     IN WatcherStep("watcher-stream-closed", closeClient(w, then))
  /\ UNCHANGED version

\* await client.close() returns in a closeStream: client = null, and
\* closeStream returns
ClientCloseReturns(then) ==
  /\ closing[<<"client", then>>] > 0
  /\ LET w == [Watcher EXCEPT !.closing[<<"client", then>>] = @ - 1, !.client = 0]
     IN WatcherStep("watcher-client-closed", settled(w, then))
  /\ UNCHANGED version

\* a timer of setTimeout(openStream, restartDelayMs) fires
RestartTimerFires ==
  /\ restartTimers > 0
  /\ stopped \/ FreeClients # {}
  /\ LET w == [Watcher EXCEPT !.restartTimers = @ - 1]
         k == CHOOSE x \in FreeClients \cup {0} :
                \A y \in FreeClients : x # 0 /\ x <= y
     IN WatcherStep("watcher-restart", openStream(w, k))
  /\ UNCHANGED version

\* stop: stopped = true; await closeStream()
Stop ==
  /\ ~stopped
  /\ FreeClients # 1..MaxClients
  /\ WatcherStep("watcher-stop", closeStream([Watcher EXCEPT !.stopped = TRUE], "stop"))
  /\ UNCHANGED version

\* the streams that deliver change events: open, on a client that is open
LiveStreams ==
  {s \in 1..MaxStreams :
     changeStreams[s] = "open" /\ mongoClients[watched[s]] = "open"}

\* a document of the watched collection changes in a tracked field: every
\* live stream emits "change", and each handler awaits onChange, that is
\* applyPlayerDirectoryChange: playerDirectoryState.version += 1
Change ==
  /\ LiveStreams # {}
  /\ version < 1 + MaxChanges
  /\ version' = version + Cardinality(LiveStreams)
  /\ WatcherStep("watcher-change", Watcher)

\* ---------------------------------------------------------- the InviteStore

InviteStatuses == {"pending", "accepted", "declined"}

\* the positions of the invites with the id inviteId (at most one: a Map)
at(inv, inviteId) == {i \in 1..Len(inv) : inv[i].id = inviteId}

\* the positions createInvite's find callback accepts for payload
pendingFor(inv, payload) ==
  {i \in 1..Len(inv) : /\ inv[i].status = "pending"
                       /\ inv[i].fromUserId = payload.fromUserId
                       /\ inv[i].toUserId = payload.toUserId}

\* the first position of a non-empty set of positions (Array.prototype.find)
first(found) == CHOOSE i \in found : \A j \in found : i <= j

\* createInvite(payload) when randomUUID() would return uuid and Date.now() t:
\* the store after the call, what is returned, and whether the id was used.
\* The avatar and goal33 fields are copied like the display names.
createInvite(inv, payload, uuid, t) ==
  LET existing == pendingFor(inv, payload)
      record == [id |-> uuid,
                 fromUserId |-> payload.fromUserId,
                 fromDisplayName |-> payload.fromDisplayName,
                 toUserId |-> payload.toUserId,
                 toDisplayName |-> payload.toDisplayName,
                 status |-> "pending",
                 createdAt |-> t]
  IN IF existing # {}
     THEN [invites |-> inv, ret |-> <<inv[first(existing)]>>, fresh |-> FALSE]
     ELSE [invites |-> Append(inv, record), ret |-> <<record>>, fresh |-> TRUE]

\* updateStatus(inviteId, status): the record is changed in place
updateStatus(inv, inviteId, status) ==
  IF at(inv, inviteId) = {}
  THEN [invites |-> inv, ret |-> <<>>]
  ELSE LET i == first(at(inv, inviteId))
           after == [inv EXCEPT ![i].status = status]
       IN [invites |-> after, ret |-> <<after[i]>>]

\* delete(inviteId): Map.delete, true when the key was there
delete(inv, inviteId) ==
  LET keeps(r) == r.id # inviteId
  IN [invites |-> SelectSeq(inv, keeps), ret |-> <<at(inv, inviteId) # {}>>]

\* a call of the invite store: nothing else is touched
InviteStep(kind, pair, res) ==
  /\ invites' = res.invites
  /\ sent' = Replies(NoConn, <<>>)
  /\ lastOp' = Op(kind, NoConn, NoUser, [NoMsg EXCEPT !.ids = pair], res.ret, {},
                  <<>>)
  /\ UNCHANGED <<presenceVars, processVars, watcherVars>>

\* invites.createInvite(payload); randomUUID() returns an id never seen
CreateInvite(payload) ==
  LET res == createInvite(invites, payload, minted + 1, now)
  IN /\ res.fresh => minted < MaxInvites
     /\ minted' = IF res.fresh THEN minted + 1 ELSE minted
     /\ InviteStep("createInvite", <<payload.fromUserId, payload.toUserId>>, res)

\* invites.updateStatus(inviteId, status)
UpdateStatus(inviteId, status) ==
  /\ InviteStep("updateStatus", <<>>, updateStatus(invites, inviteId, status))
  /\ UNCHANGED minted

\* invites.delete(inviteId)
DeleteInvite(inviteId) ==
  /\ InviteStep("delete", <<>>, delete(invites, inviteId))
  /\ UNCHANGED minted

\* --------------------------------------------------------------- the inputs

\* the optional fields of the heartbeats clients send: none; a status, a TTL
\* under the floor and metadata; a TTL of 0
PlainShape == [status |-> UNDEF, ttlMs |-> Undefined, metadata |-> UNDEF]

AwayShape == [status |-> "away", ttlMs |-> {10}, metadata |-> "m1"]

ZeroShape == [status |-> UNDEF, ttlMs |-> {0}, metadata |-> UNDEF]

BusyShape == [status |-> "busy", ttlMs |-> {1}, metadata |-> UNDEF]

\* a status outside the enumeration: the word "offline", and any other string
OfflineShape == [status |-> "offline", ttlMs |-> Undefined, metadata |-> UNDEF]

OtherShape == [status |-> "<string>", ttlMs |-> Undefined, metadata |-> UNDEF]

HeartbeatMsgs(users, shapes) ==
  {WsMsg("heartbeat", u, sh, <<>>) : u \in users, sh \in shapes}

OfflineMsgs(users) == {WsMsg("offline", u, NoShape, <<>>) : u \in users}

QueryMsgs(lists) == {WsMsg("query-presence", UNDEF, NoShape, ids) : ids \in lists}

SubscribeMsgs(lists) ==
  {WsMsg("subscribe-friends", UNDEF, NoShape, ids) : ids \in lists}

UnsubscribeMsgs(lists) ==
  {WsMsg("unsubscribe-friends", UNDEF, NoShape, ids) : ids \in lists}

\* the parsed messages that are not well-formed: a heartbeat and an offline
\* without userId, a subscribe-friends and a query-presence without an array
MalformedMsgs ==
  {WsMsg("heartbeat", UNDEF, AwayShape, <<>>), WsMsg("offline", UNDEF, NoShape, <<>>),
   NotArray(WsMsg("subscribe-friends", UNDEF, NoShape, <<>>)),
   NotArray(WsMsg("query-presence", UNDEF, NoShape, <<>>))}

\* parsed messages of a type the handler does not know
UnknownMsgs == {WsMsg("ping", "a", NoShape, <<>>), WsMsg("subscribe", UNDEF, NoShape, <<"a">>)}

\* the status and overrides a caller of the store passes: no override, and
\* the TTLs 10, 1 and 0 under the floor
UpsertArgs ==
  {[status |-> "online", ttlMs |-> Undefined, metadata |-> UNDEF], AwayShape,
   BusyShape, [status |-> "online", ttlMs |-> {0}, metadata |-> UNDEF]}

\* the friendIds arrays clients subscribe with: one friend; two friends, one
\* of them twice, and an element that is not a string
FriendLists == {<<"a">>, <<"b", NON_STRING, "b">>, <<"b", "a">>}

\* the bodies of POST /presence/heartbeat and POST /presence/offline
HttpBodies(users, shapes) == {WsMsg("http", u, sh, <<>>) : u \in users, sh \in shapes}

\* ------------------------------------------------------ the specifications

\* the service after start-up, the clock showing t
InitAt(t, ttls) ==
  /\ now = t
  /\ storeTtlMs \in ttls
  /\ store = EmptyMap
  /\ readyState = [c \in Conns |-> "NONE"]
  /\ userId = [c \in Conns |-> NULL]
  /\ subscriptions = EmptyMap
  /\ sent = Replies(NoConn, <<>>)
  /\ lastOp = Op("init", NoConn, NoUser, NoMsg, <<>>, {}, <<>>)
  /\ upserted = EmptyMap
  /\ sweepTimer = "active"
  /\ server = "listening"
  /\ httpSockets = 0
  /\ gracefulShutdown = "idle"
  /\ exited = FALSE
  /\ stopped = FALSE
  /\ client = 0
  /\ stream = 0
  /\ mongoClients = [k \in 1..MaxClients |-> "none"]
  /\ connecting = {}
  /\ changeStreams = [k \in 1..MaxStreams |-> "none"]
  /\ watched = [k \in 1..MaxStreams |-> 0]
  /\ closing = [a \in Awaited |-> 0]
  /\ restartTimers = 0
  /\ stopReturned = FALSE
  /\ version = 1
  /\ invites = <<>>
  /\ minted = 0

Init == InitAt(FirstInstant, ConfiguredTtls)

\* The store under its callers: upsert with every kind of override, the HTTP
\* routes that read and delete, the sweep, and time passing.
NextStore ==
  \/ \E u \in Users, args \in UpsertArgs :
       Upsert(u, args.status, args.ttlMs, args.metadata)
  \/ \E body \in HttpBodies(Users, {PlainShape}) : HttpOffline(body)
  \/ \E u \in Users : HttpGetOne(u)
  \/ \E ids \in {<<"a", "b", "a">>} : HttpGetMany(ids)
  \/ Sweep
  \/ Tick

SpecStore == Init /\ [][NextStore]_vars

\* the service some time after start-up, with the default configuration
InitLate == InitAt(MaxPeriods * MIN_TTL, {PRESENCE_TTL_MS})

\* Fan-out: three connections watching one user.
NextFanout ==
  \/ \E c \in Conns : Connect(c)
  \/ \E c \in Conns, msg \in HeartbeatMsgs({"a"}, {AwayShape}) : Heartbeat(c, msg)
  \/ \E c \in Conns, msg \in OfflineMsgs({"a"}) : Offline(c, msg)
  \/ \E c \in Conns, msg \in SubscribeMsgs({<<"a">>, <<"b">>}) :
       SubscribeFriends(c, msg)
  \/ \E c \in Conns, msg \in UnsubscribeMsgs({<<>>}) : UnsubscribeFriends(c, msg)
  \/ \E c \in Conns : Close(c)
  \/ \E body \in HttpBodies({"a"}, {PlainShape}) : HttpHeartbeat(body)
  \/ \E body \in HttpBodies({"a"}, {PlainShape}) : HttpOffline(body)

SpecFanout == InitLate /\ [][NextFanout]_vars

\* Two connections heartbeating for one user in every shape, next to the
\* HTTP heartbeat route.
NextConn ==
  \/ \E c \in {"c1", "c2"} : Connect(c)
  \/ \E c \in {"c1", "c2"}, msg \in HeartbeatMsgs({"a"}, {PlainShape, AwayShape, ZeroShape}) :
       Heartbeat(c, msg)
  \/ \E c \in {"c1", "c2"}, msg \in OfflineMsgs({"a"}) : Offline(c, msg)
  \/ \E c \in {"c1", "c2"}, msg \in SubscribeMsgs({<<"a">>}) : SubscribeFriends(c, msg)
  \/ \E c \in {"c1", "c2"}, msg \in QueryMsgs({<<"a">>}) : QueryPresence(c, msg)
  \/ \E c \in {"c1", "c2"} : Close(c)
  \/ \E body \in HttpBodies({"a"}, {PlainShape, BusyShape, ZeroShape}) :
       HttpHeartbeat(body)

SpecConn == InitLate /\ [][NextConn]_vars

\* Two connections and two users: subscription sets, their replacement, and
\* subscribers whose socket is closing.
NextSubs ==
  \/ \E c \in {"c1", "c2"} : Connect(c)
  \/ \E c \in {"c1", "c2"}, msg \in HeartbeatMsgs(Users, {AwayShape}) : Heartbeat(c, msg)
  \/ \E c \in {"c1", "c2"}, msg \in OfflineMsgs(Users) : Offline(c, msg)
  \/ \E c \in {"c1", "c2"}, msg \in SubscribeMsgs(FriendLists) : SubscribeFriends(c, msg)
  \/ \E c \in {"c1", "c2"}, msg \in UnsubscribeMsgs({<<>>}) : UnsubscribeFriends(c, msg)
  \/ \E c \in {"c1", "c2"} : BeginClose(c)
  \/ \E c \in {"c1", "c2"} : Close(c)

SpecSubs == InitLate /\ [][NextSubs]_vars

\* One connection receiving every kind of message, well-formed or not, next
\* to a second connection that heartbeats and subscribes.
NextMsgs ==
  \/ \E c \in {"c1", "c2"} : Connect(c)
  \/ \E c \in {"c1", "c2"}, msg \in HeartbeatMsgs({"a"}, {AwayShape}) : Heartbeat(c, msg)
  \/ \E c \in {"c1"}, msg \in OfflineMsgs({"a"}) : Offline(c, msg)
  \/ \E c \in {"c1"}, msg \in QueryMsgs({<<"a">>}) : QueryPresence(c, msg)
  \/ \E c \in {"c1", "c2"}, msg \in SubscribeMsgs({<<"a">>, <<"b">>}) :
       SubscribeFriends(c, msg)
  \/ \E c \in {"c1"}, msg \in UnsubscribeMsgs({<<>>}) : UnsubscribeFriends(c, msg)
  \/ \E c \in {"c1"}, msg \in MalformedMsgs \cup UnknownMsgs : Ignored(c, msg)
  \/ \E c \in {"c1"} : Unparseable(c)
  \/ \E c \in {"c1"} : Close(c)

SpecMsgs == InitLate /\ [][NextMsgs]_vars

\* the userIds arrays of at most n elements
IdSeqs(n) == UNION {[1..k -> Users] : k \in 1..n}

\* getMany over every array of userIds, with repetitions, while records are
\* stored and expire.
NextMany ==
  \/ \E u \in Users : Upsert(u, AwayShape.status, AwayShape.ttlMs, AwayShape.metadata)
  \/ \E ids \in IdSeqs(MaxIds) : HttpGetMany(ids)
  \/ Tick

SpecMany == InitAt(FirstInstant, {PRESENCE_TTL_MS}) /\ [][NextMany]_vars

\* Records written and removed: upserts, explicit removal, the sweep and
\* time; no read of the store.
NextRemoval ==
  \/ \E u \in Users, args \in UpsertArgs :
       Upsert(u, args.status, args.ttlMs, args.metadata)
  \/ \E body \in HttpBodies(Users, {PlainShape}) : HttpOffline(body)
  \/ Sweep
  \/ Tick

SpecRemoval == Init /\ [][NextRemoval]_vars

\* Subscribers and the timer of the sweep: connections subscribe to a and
\* send its heartbeats, records expire and are swept.
NextSweep ==
  \/ \E c \in {"c1", "c2"} : Connect(c)
  \/ \E c \in {"c1", "c2"}, msg \in HeartbeatMsgs({"a"}, {AwayShape}) : Heartbeat(c, msg)
  \/ \E c \in {"c1", "c2"}, msg \in SubscribeMsgs({<<"a">>}) : SubscribeFriends(c, msg)
  \/ \E c \in {"c1", "c2"} : Close(c)
  \/ Sweep
  \/ Tick

SpecSweep == InitAt(FirstInstant, {PRESENCE_TTL_MS}) /\ [][NextSweep]_vars

\* The process from start-up to exit: connections subscribe and heartbeat,
\* the timer of the sweep fires, HTTP clients come and go, a signal arrives.
\* Nothing runs once the process has exited.
NextShutdown ==
  \/ ~exited /\ \E c \in {"c1", "c2"} : Connect(c)
  \/ ~exited /\ \E c \in {"c1", "c2"}, msg \in HeartbeatMsgs({"a"}, {AwayShape}) :
                   Heartbeat(c, msg)
  \/ ~exited /\ \E c \in {"c1", "c2"}, msg \in SubscribeMsgs({<<"a">>}) :
                   SubscribeFriends(c, msg)
  \/ ~exited /\ \E c \in {"c1", "c2"} : Close(c)
  \/ ~exited /\ TimerFires
  \/ ~exited /\ HttpSocketOpen
  \/ ~exited /\ HttpSocketEnd
  \/ ~exited /\ Signal
  \/ ~exited /\ ServerClose
  \/ ~exited /\ Exit

SpecShutdown == InitAt(MaxPeriods * MIN_TTL, {PRESENCE_TTL_MS}) /\ [][NextShutdown]_vars

\* Heartbeats with every kind of status (none, one of the enumeration,
\* "offline", another string) over the WebSocket and over HTTP.
NextStatus ==
  \/ \E c \in {"c1"} : Connect(c)
  \/ \E c \in {"c1"},
        msg \in HeartbeatMsgs(Users, {PlainShape, AwayShape, OfflineShape, OtherShape}) :
       Heartbeat(c, msg)
  \/ \E body \in HttpBodies({"a"}, {PlainShape, BusyShape, OfflineShape, OtherShape}) :
       HttpHeartbeat(body)
  \/ \E c \in {"c1"} : Close(c)

SpecStatus == InitLate /\ [][NextStatus]_vars

\* Heartbeats with and without ttlMs, over the WebSocket and over HTTP, under
\* every configured default TTL.
NextTtl ==
  \/ \E c \in {"c1"} : Connect(c)
  \/ \E c \in {"c1"}, msg \in HeartbeatMsgs({"a"}, {PlainShape, AwayShape}) :
       Heartbeat(c, msg)
  \/ \E body \in HttpBodies({"a"}, {PlainShape, BusyShape}) : HttpHeartbeat(body)
  \/ \E c \in {"c1"} : Close(c)
  \/ Tick

SpecTtl == Init /\ [][NextTtl]_vars

\* The user change watcher from its start: connects that succeed or fail,
\* streams that fail or close, restarts, changes of the collection, stop.
NextWatcher ==
  \/ StartWatcher
  \/ \E k \in 1..MaxClients : ConnectResolves(k)
  \/ \E k \in 1..MaxClients : ConnectRejects(k)
  \/ \E s \in 1..MaxStreams : StreamError(s)
  \/ \E s \in 1..MaxStreams : StreamClose(s)
  \/ \E then \in {"restart", "stop"} : StreamCloseReturns(then)
  \/ \E then \in {"restart", "stop"} : ClientCloseReturns(then)
  \/ RestartTimerFires
  \/ Stop
  \/ Change

SpecWatcher == InitAt(FirstInstant, {PRESENCE_TTL_MS}) /\ [][NextWatcher]_vars

\* the payloads given to createInvite: every ordered pair of users, under two
\* display names of the sender
InvitePayloads ==
  [fromUserId : Users, fromDisplayName : {"n1", "n2"}, toUserId : Users,
   toDisplayName : {"n"}]

\* The invite store under every call of its three mutating methods.
NextInvites ==
  \/ \E payload \in InvitePayloads : CreateInvite(payload)
  \/ \E inviteId \in 1..MaxInvites, status \in InviteStatuses :
       UpdateStatus(inviteId, status)
  \/ \E inviteId \in 1..MaxInvites : DeleteInvite(inviteId)

SpecInvites == InitAt(FirstInstant, {PRESENCE_TTL_MS}) /\ [][NextInvites]_vars

\* the last instant the clock is observed at
LastInstant == MaxPeriods * MIN_TTL + 1

\* the service at start-up with a default TTL under the floor, so that every
\* record lives MIN_TTL
InitExpiry == InitAt(FirstInstant, {500})

\* Records left alone: upserts (only while the record they store expires
\* within the instants observed), explicit removal, the sweep and time; no
\* read of the store.
NextExpiry ==
  \/ \E u \in Users, args \in UpsertArgs :
       /\ now + MIN_TTL <= LastInstant
       /\ Upsert(u, args.status, args.ttlMs, args.metadata)
  \/ \E body \in HttpBodies(Users, {PlainShape}) : HttpOffline(body)
  \/ Sweep
  \/ Tick

\* the timer of the sweep keeps firing and the clock keeps advancing
SpecExpiry ==
  InitExpiry /\ [][NextExpiry]_vars /\ WF_vars(Sweep) /\ WF_vars(Tick)

\* ------------------------------------------------------------- the claims

\* user has a record in the store that is expired at instant t
ExpiredAt(user, t) == user \in DOMAIN store /\ store[user].expiresAt <= t

\* the users of the snapshots a read returned
Returned(ret) == {ret[i].userId : i \in 1..Len(ret)}

\* C1: getOne(u), and getMany over u, never return a snapshot for a record
\* whose expiresAt <= now at the time of the call: the record is deleted and
\* absent is returned, size() no longer counts u, and a getOne(u) of a user
\* the store does not hold returns absent again and changes nothing.
Thm_C1 ==
  [][/\ lastOp'.kind = "http-get" =>
          LET u == lastOp'.userId
          IN /\ ExpiredAt(u, now) =>
                  /\ lastOp'.ret = <<>>
                  /\ u \notin DOMAIN store'
                  /\ size(store') = size(store) - 1
             /\ u \notin DOMAIN store => (lastOp'.ret = <<>> /\ store' = store)
             /\ Returned(lastOp'.ret) \subseteq {x \in {u} : ~ExpiredAt(x, now)}
     /\ lastOp'.kind = "http-get-many" =>
          LET gone == {x \in Range(lastOp'.ids) : ExpiredAt(x, now)}
          IN /\ gone \cap DOMAIN store' = {}
             /\ gone \cap Returned(lastOp'.ret) = {}
             /\ size(store') <= size(store) - Cardinality(gone)
             /\ Returned(lastOp'.ret) \subseteq Range(lastOp'.ids) \cap DOMAIN store
    ]_vars

\* a getOne found a record expired at the time of the call and evicted it
Witness_C1 ==
  /\ lastOp.kind = "http-get"
  /\ lastOp.prior # <<>>
  /\ lastOp.prior[1].expiresAt <= lastOp.t
  /\ lastOp.ret = <<>>
  /\ lastOp.userId \notin DOMAIN store

\* the end of the window the last upsert of user opened: the time of the call
\* plus the larger of 1000 and the override, or the default without override
Window(user) ==
  LET call == upserted[user]
      ttl == IF call.ttlMs = {} THEN storeTtlMs ELSE CHOOSE x \in call.ttlMs : TRUE
  IN call.at + (IF ttl >= 1000 THEN ttl ELSE 1000)

Thm_C7 ==
  /\ \A u \in DOMAIN store : store[u].expiresAt >= store[u].lastSeen + 1000
  /\ lastOp.kind = "upsert" =>
       LET snap == lastOp.ret[1]
       IN /\ snap.userId = lastOp.userId
          /\ snap.lastSeen = lastOp.t
          /\ snap.expiresAt - snap.lastSeen >= 1000
          /\ store[lastOp.userId].expiresAt = snap.expiresAt
          /\ store[lastOp.userId].lastSeen = snap.lastSeen
          /\ snap.ttlMs = snap.expiresAt - now
          /\ now = lastOp.t => snap.ttlMs >= 1000

\* an upsert with the override 10 under a default TTL of 500 stored a record
\* that lives 1000 ms and returned a snapshot with ttlMs = 1000
Witness_C7 ==
  /\ lastOp.kind = "upsert"
  /\ lastOp.ttlMs = {10}
  /\ storeTtlMs < 1000
  /\ now = lastOp.t
  /\ lastOp.ret[1].ttlMs = 1000
  /\ store[lastOp.userId].expiresAt - store[lastOp.userId].lastSeen = 1000

\* the positions in msgs of the updates notifySubscribers pushes for user
Pushes(msgs, user) ==
  {i \in 1..Len(msgs) : /\ msgs[i].type = "friends-presence-update"
                        /\ Len(msgs[i].users) = 1
                        /\ msgs[i].users[1].userId = user}

\* connection c has a registry entry whose set holds user
Watching(c, user) == c \in DOMAIN subscriptions /\ user \in subscriptions[c]

\* after the step, connection c holds exactly one update for user, with status
OnePush(c, user, status) ==
  /\ Cardinality(Pushes(sent'[c], user)) = 1
  /\ \A i \in Pushes(sent'[c], user) : sent'[c][i].users[1].status = status

\* C3: one heartbeat of peer p with status "away" makes every open
\* connection subscribed to a set containing p (whose send does not throw)
\* receive exactly one update for p with status "away", and every connection
\* not subscribed to p receive no update.
Thm_C3 ==
  [][(lastOp'.kind = "heartbeat" /\ lastOp'.status = "away") =>
       \A x \in Conns :
         IF Watching(x, lastOp'.userId) /\ readyState[x] = "OPEN"
            /\ x \notin lastOp'.failed
         THEN OnePush(x, lastOp'.userId, "away")
         ELSE Pushes(sent'[x], lastOp'.userId) = {}
    ]_vars

\* an "away" heartbeat reached two subscribers and left out a third open
\* connection that is not subscribed to the peer
Witness_C3 ==
  /\ lastOp.kind = "heartbeat"
  /\ lastOp.status = "away"
  /\ \E x, y, z \in Conns :
       /\ x # y /\ x # z /\ y # z
       /\ Pushes(sent[x], lastOp.userId) # {}
       /\ Pushes(sent[y], lastOp.userId) # {}
       /\ readyState[z] = "OPEN"
       /\ ~Watching(z, lastOp.userId)
       /\ Pushes(sent[z], lastOp.userId) = {}

\* C4 (as amended): when a connection bound to user u closes, the record of u
\* is gone (the store holds records only of users upserted since their last
\* removal), and that close pushes exactly one "offline" update for u to every
\* other open connection subscribed to u (whose send does not throw), and
\* none to anyone else.
Thm_C4 ==
  [][/\ DOMAIN store' \subseteq DOMAIN upserted'
     /\ (lastOp'.kind = "close" /\ lastOp'.userId # NULL) =>
          /\ lastOp'.userId = userId[lastOp'.conn]
          /\ lastOp'.userId \notin DOMAIN store'
          /\ \A x \in Conns :
               IF x # lastOp'.conn /\ Watching(x, lastOp'.userId)
                  /\ readyState[x] = "OPEN" /\ x \notin lastOp'.failed
               THEN OnePush(x, lastOp'.userId, "offline")
               ELSE Pushes(sent'[x], lastOp'.userId) = {}
    ]_vars

\* the close of a bound connection removed a record the store held and pushed
\* "offline" to a subscriber
Witness_C4 ==
  /\ lastOp.kind = "close"
  /\ lastOp.userId # NULL
  /\ lastOp.prior # <<>>
  /\ lastOp.userId \notin DOMAIN store
  /\ \E x \in Conns \ {lastOp.conn} : Pushes(sent[x], lastOp.userId) # {}

\* C4 (as stated), in the case it names: a connection that sent an explicit
\* offline message for u and then closes; a subscriber that received the
\* "offline" update from the message receives no second one from the close.
Orig_C4 ==
  [][(/\ lastOp.kind = "offline"
      /\ lastOp'.kind = "close"
      /\ lastOp'.conn = lastOp.conn
      /\ lastOp'.userId = lastOp.userId) =>
       \A x \in Conns :
         Pushes(sent[x], lastOp.userId) # {} => Pushes(sent'[x], lastOp.userId) = {}
    ]_vars

\* the handlers that write the store: upsert or markOffline of lastOp.userId
StoreWrite ==
  \/ lastOp.kind \in {"heartbeat", "offline", "http-heartbeat", "http-offline"}
  \/ lastOp.kind = "close" /\ lastOp.userId # NULL

\* C5: every handler that reaches store.upsert or store.markOffline (the
\* WebSocket heartbeat and offline messages, the teardown, and the HTTP
\* /presence/heartbeat and /presence/offline routes) has, when it ends,
\* notified every open connection subscribed to that user.
Orig_C5 ==
  StoreWrite =>
    \A x \in Conns :
      (readyState[x] = "OPEN" /\ Watching(x, lastOp.userId))
        => Pushes(sent[x], lastOp.userId) # {}

\* the handlers that call notifySubscribers for lastOp.userId
Notified ==
  \/ lastOp.kind \in {"heartbeat", "offline"}
  \/ lastOp.kind = "close" /\ lastOp.userId # NULL

\* C9: at the end of a notify for peer p no subscriber of p whose send failed
\* or whose connection is no longer open is left in the registry, every
\* open subscriber of p left in it holds its update, and the sender of the
\* heartbeat or offline message got no error.
Orig_C9 ==
  Notified =>
    /\ \A x \in Conns :
         Watching(x, lastOp.userId) =>
           /\ readyState[x] = "OPEN"
           /\ x \notin lastOp.failed
           /\ Pushes(sent[x], lastOp.userId) # {}
    /\ \A x \in Conns : \A i \in 1..Len(sent[x]) : sent[x][i].type # "error"

\* C10: only a heartbeat changes the userId bound to a connection, so that a
\* connection no heartbeat reached is bound to no user; the close of a
\* connection bound to no user removes no record and pushes no update, and
\* removes its registry entry.
Orig_C10 ==
  [][/\ \A c \in Conns :
          userId'[c] # userId[c] => (lastOp'.kind = "heartbeat" /\ lastOp'.conn = c)
     /\ \A c \in Conns :
          (lastOp'.kind = "close" /\ lastOp'.conn = c /\ userId[c] = NULL) =>
            /\ store' = store
            /\ \A x \in Conns : sent'[x] = <<>>
            /\ c \notin DOMAIN subscriptions'
    ]_vars

\* the record the last upsert of user builds: its status and metadata, the
\* time of the call, and the end of its window
LastWritten(user) ==
  [userId |-> user, status |-> upserted[user].status,
   lastSeen |-> upserted[user].at, expiresAt |-> Window(user),
   metadata |-> upserted[user].metadata]

\* C6: whatever connections and HTTP requests upserted a user before, the
\* record the store holds for it is exactly the record the last upsert built
\* (status, metadata, lastSeen, expiresAt); a heartbeat stores the status,
\* TTL and metadata of its own message (or the handler's defaults for what
\* the message leaves out) and nothing of the record it replaces.
Thm_C6 ==
  /\ \A u \in DOMAIN store : u \in DOMAIN upserted /\ store[u] = LastWritten(u)
  /\ lastOp.kind = "heartbeat" =>
       /\ store[lastOp.userId].status
            = (IF lastOp.status = UNDEF THEN "online" ELSE lastOp.status)
       /\ store[lastOp.userId].metadata
            = (IF lastOp.metadata = UNDEF THEN EMPTY_OBJ ELSE lastOp.metadata)
       /\ store[lastOp.userId].lastSeen = lastOp.t
  /\ lastOp.kind = "http-heartbeat" =>
       /\ store[lastOp.userId].status
            = (IF lastOp.status = UNDEF THEN "online" ELSE lastOp.status)
       /\ store[lastOp.userId].metadata = lastOp.metadata
       /\ store[lastOp.userId].lastSeen = lastOp.t

\* connection c2 heartbeats without metadata for the user connection c1 is
\* bound to, over a record that carried metadata
Witness_C6 ==
  /\ lastOp.kind = "heartbeat"
  /\ lastOp.conn = "c2"
  /\ userId["c1"] = lastOp.userId
  /\ lastOp.metadata = UNDEF
  /\ lastOp.prior # <<>>
  /\ lastOp.prior[1].metadata = "m1"
  /\ lastOp.prior[1].status = "away"
  /\ store[lastOp.userId].metadata = EMPTY_OBJ
  /\ store[lastOp.userId].status = "online"

\* C8: a subscribe-friends message replaces the watched set of its connection
\* with exactly the strings of its friendIds, whatever the set was before,
\* and leaves the other entries alone; a presence change of a peer pushes
\* exactly one update to every open connection whose current set holds the
\* peer (and whose send does not throw) and nothing to the others.
Thm_C8 ==
  [][/\ lastOp'.kind = "subscribe-friends" =>
          subscriptions' =
            [x \in DOMAIN subscriptions \cup {lastOp'.conn} |->
               IF x = lastOp'.conn THEN Range(lastOp'.ids) \ {NON_STRING}
               ELSE subscriptions[x]]
     /\ (lastOp'.kind \in {"heartbeat", "offline"}
          \/ (lastOp'.kind = "close" /\ lastOp'.userId # NULL)) =>
          \A x \in Conns :
            IF /\ Watching(x, lastOp'.userId)
               /\ readyState[x] = "OPEN"
               /\ x \notin lastOp'.failed
               /\ ~(lastOp'.kind = "close" /\ lastOp'.conn = x)
            THEN Cardinality(Pushes(sent'[x], lastOp'.userId)) = 1
            ELSE Pushes(sent'[x], lastOp'.userId) = {}
    ]_vars

\* a second subscribe-friends dropped a peer the connection watched before
Witness_C8 ==
  /\ lastOp.kind = "subscribe-friends"
  /\ lastOp.prior # <<>>
  /\ lastOp.prior[1] \ subscriptions[lastOp.conn] # {}
  /\ subscriptions[lastOp.conn] # {}

\* the message types the handler has a branch for
KnownTypes ==
  {"heartbeat", "offline", "query-presence", "subscribe-friends", "unsubscribe-friends"}

\* the step handles a message that does not parse, or a heartbeat, offline or
\* subscribe-friends message without its required field
InvalidStep ==
  \/ lastOp'.kind = "unparseable"
  \/ /\ lastOp'.kind = "ignored"
     /\ lastOp'.prior[1] \in {"heartbeat", "offline", "subscribe-friends"}

\* the step leaves the store, the registry, the bound userIds and the sockets'
\* readyState as they were
NothingChanged ==
  /\ store' = store
  /\ subscriptions' = subscriptions
  /\ userId' = userId
  /\ readyState' = readyState

\* C11: an invalid heartbeat, offline or subscribe-friends message (one that
\* fails to parse or lacks its required field) yields exactly one error reply
\* on its connection and nothing elsewhere, changes neither the store nor the
\* registry nor the bound userId, and leaves the connection open.
Orig_C11 ==
  [][InvalidStep =>
       /\ Len(sent'[lastOp'.conn]) = 1
       /\ sent'[lastOp'.conn][1].type = "error"
       /\ \A x \in Conns \ {lastOp'.conn} : sent'[x] = <<>>
       /\ NothingChanged
       /\ readyState'[lastOp'.conn] = "OPEN"
    ]_vars

\* C12: a parsed message whose type is none of heartbeat, offline,
\* query-presence, subscribe-friends, unsubscribe-friends gets no reply of
\* any kind, and the store, the registry and the bound userIds are unchanged.
Thm_C12 ==
  [][(lastOp'.kind = "ignored" /\ lastOp'.prior[1] \notin KnownTypes) =>
       /\ \A x \in Conns : sent'[x] = <<>>
       /\ NothingChanged
    ]_vars

\* a message of unknown type arrived on a connection that is bound to a user
\* and subscribed, while the store holds a record
Witness_C12 ==
  /\ lastOp.kind = "ignored"
  /\ lastOp.prior[1] = "ping"
  /\ userId[lastOp.conn] # NULL
  /\ lastOp.conn \in DOMAIN subscriptions
  /\ store # EmptyMap
  /\ \A x \in Conns : sent[x] = <<>>

\* an upsert of user has just run
JustUpserted(user) == lastOp.kind = "upsert" /\ lastOp.userId = user

\* C13: while the sweep keeps running and time advances, a record in the
\* store is eventually removed from the backing map unless a new upsert of its
\* user arrives, with no read of the store at all; and a user absent from
\* the map stays absent until an upsert of that user.
Thm_C13 ==
  /\ \A u \in Users :
       (u \in DOMAIN store) ~> (u \notin DOMAIN store \/ JustUpserted(u))
  /\ [][\A u \in Users :
          (u \notin DOMAIN store /\ u \in DOMAIN store') =>
            (lastOp'.kind = "upsert" /\ lastOp'.userId = u)]_vars

\* a sweep removed the record of a user that was upserted and never marked
\* offline
Witness_C13 ==
  /\ lastOp.kind = "sweep"
  /\ lastOp.prior[1] >= 1
  /\ \E u \in DOMAIN upserted : u \notin DOMAIN store

\* C14: for every array of userIds, with any repetitions, getMany returns at
\* most one snapshot per distinct userId, all of them for ids asked about;
\* one, carrying the stored record, for each id whose record is present and
\* unexpired until the call ends; none for an id that is absent or expired
\* when the call starts, and the expired ones are evicted; users not asked
\* about are left alone.
Thm_C14 ==
  [][lastOp'.kind = "http-get-many" =>
       LET ids == Range(lastOp'.ids)
           ret == lastOp'.ret
       IN /\ Cardinality(Returned(ret)) = Len(ret)
          /\ Returned(ret) \subseteq ids \cap DOMAIN store
          /\ \A i \in 1..Len(ret) :
               /\ ret[i].expiresAt = store[ret[i].userId].expiresAt
               /\ ret[i].lastSeen = store[ret[i].userId].lastSeen
               /\ ret[i].status = store[ret[i].userId].status
          /\ \A u \in ids :
               /\ ExpiredAt(u, now) => (u \notin Returned(ret) /\ u \notin DOMAIN store')
               /\ (u \in DOMAIN store /\ store[u].expiresAt > now') =>
                    (u \in Returned(ret) /\ u \in DOMAIN store' /\ store'[u] = store[u])
          /\ \A u \in Users \ ids :
               /\ u \in DOMAIN store <=> u \in DOMAIN store'
               /\ u \in DOMAIN store => store'[u] = store[u]
    ]_vars

\* getMany([a, a, b]) returned one snapshot, for a, while the record of b,
\* upserted earlier, has expired and is out of the map
Witness_C14 ==
  /\ lastOp.kind = "http-get-many"
  /\ lastOp.ids = <<"a", "a", "b">>
  /\ Len(lastOp.ret) = 1
  /\ lastOp.ret[1].userId = "a"
  /\ "b" \in DOMAIN upserted
  /\ "b" \notin DOMAIN store

\* C15: markOffline(u) goes through whether or not u has a record, leaves
\* the store without a record of u and every other user's record as it was,
\* and a second markOffline(u) leaves the store exactly as the first did.
Thm_C15 ==
  [][lastOp'.kind = "http-offline" =>
       LET u == lastOp'.userId
       IN /\ u \notin DOMAIN store'
          /\ \A v \in Users \ {u} :
               /\ v \in DOMAIN store <=> v \in DOMAIN store'
               /\ v \in DOMAIN store => store'[v] = store[v]
          /\ markOffline(World(store', <<now'>>), u).store = store'
          /\ (lastOp.kind = "http-offline" /\ lastOp.userId = u) => store' = store
          /\ \A body \in HttpBodies({u}, {PlainShape}) : ENABLED HttpOffline(body)
    ]_vars

\* markOffline(a) has run while a had no record and b had one
Witness_C15 ==
  /\ lastOp.kind = "http-offline"
  /\ lastOp.userId = "a"
  /\ lastOp.prior = <<>>
  /\ "a" \notin DOMAIN upserted
  /\ "b" \in DOMAIN store

\* C16: cleanupExpired removes every record already expired when the sweep
\* starts, removes no record that is unexpired when it ends, leaves the
\* records it keeps unchanged and adds none, and returns the number of
\* records removed (size before minus size after).
Thm_C16 ==
  [][lastOp'.kind = "sweep" =>
       /\ DOMAIN store' \subseteq DOMAIN store
       /\ \A u \in DOMAIN store' : store'[u] = store[u]
       /\ \A u \in DOMAIN store :
            /\ store[u].expiresAt <= now => u \notin DOMAIN store'
            /\ store[u].expiresAt > now' => u \in DOMAIN store'
       /\ lastOp'.prior = <<size(store) - size(store')>>
    ]_vars

\* a sweep has removed one record, expired, and kept the other, which is
\* not
Witness_C16 ==
  /\ lastOp.kind = "sweep"
  /\ lastOp.prior = <<1>>
  /\ size(store) = 1
  /\ \A u \in DOMAIN store : store[u].expiresAt > now

\* the userIds listed in a reply
Listed(msg) == {msg.users[i].userId : i \in 1..Len(msg.users)}

Orig_C18 ==
  lastOp.kind = "heartbeat" =>
    \A x \in Conns :
      \A i \in Pushes(sent[x], lastOp.userId) :
        LET entry == sent[x][i].users[1]
            record == store[lastOp.userId]
            snap == lastOp.ret[1]
        IN /\ entry.userId = record.userId
           /\ entry.status = (IF snap.isOnline THEN record.status ELSE "offline")
           /\ entry.lastSeen = record.lastSeen
           /\ entry.metadata = (IF record.metadata = UNDEF THEN NULL
                                ELSE record.metadata)

\* C19: a heartbeat, offline or query-presence message leaves the registry
\* as it was, but for the entries of the subscribers whose delivery failed;
\* a query-presence leaves it as it was; and whenever the registry changes,
\* the step is a subscribe-friends, an unsubscribe-friends, a close, or one
\* with a failed delivery.
Thm_C19 ==
  [][/\ lastOp'.kind \in {"heartbeat", "offline", "query-presence"} =>
          /\ subscriptions' = [ws \in (DOMAIN subscriptions) \ lastOp'.failed
                                 |-> subscriptions[ws]]
          /\ lastOp'.failed \subseteq
               {ws \in Conns : Watching(ws, lastOp'.userId)}
     /\ lastOp'.kind = "query-presence" => subscriptions' = subscriptions
     /\ subscriptions' # subscriptions =>
          \/ lastOp'.kind \in {"subscribe-friends", "unsubscribe-friends", "close"}
          \/ lastOp'.failed # {}
    ]_vars

\* c1, subscribed to a, has itself sent a heartbeat for a: it got the ack and
\* the update, and is subscribed to a as before
Witness_C19 ==
  /\ lastOp.kind = "heartbeat"
  /\ lastOp.conn = "c1"
  /\ lastOp.userId = "a"
  /\ lastOp.failed = {}
  /\ Watching("c1", "a")
  /\ Len(sent["c1"]) = 2

\* C20: a run of the sweep sends no message to any connection and leaves
\* the registry, the sockets and the users bound to them as they were, also
\* when it removes the record of a user an open connection is subscribed to.
Thm_C20 ==
  [][lastOp'.kind = "sweep" =>
       /\ \A x \in Conns : sent'[x] = <<>>
       /\ subscriptions' = subscriptions
       /\ readyState' = readyState
       /\ userId' = userId
    ]_vars

\* the sweep has removed the expired record of a, stored by a heartbeat and
\* never marked offline, while c1 is open and subscribed to a: c1 got nothing
Witness_C20 ==
  /\ lastOp.kind = "sweep"
  /\ lastOp.prior = <<1>>
  /\ "a" \in DOMAIN upserted
  /\ "a" \notin DOMAIN store
  /\ readyState["c1"] = "OPEN"
  /\ Watching("c1", "a")
  /\ sent["c1"] = <<>>

\* C21: every connection with a registry entry is one whose close has not
\* been processed (its socket is OPEN or CLOSING); a connection whose close
\* handler has run has no entry, whether or not it was bound to a user, and,
\* staying closed for good, never has one again.
Thm_C21 ==
  /\ [](\A c \in Conns :
          /\ c \in DOMAIN subscriptions => readyState[c] \in {"OPEN", "CLOSING"}
          /\ readyState[c] = "CLOSED" => c \notin DOMAIN subscriptions)
  /\ [][\A c \in Conns :
          /\ readyState[c] = "CLOSED" => readyState'[c] = "CLOSED"
          /\ (lastOp'.kind = "close" /\ lastOp'.conn = c) =>
               (readyState'[c] = "CLOSED" /\ c \notin DOMAIN subscriptions')
       ]_vars

\* c1, bound to a user, has been closed after c2, which was bound to none;
\* neither has an entry
Witness_C21 ==
  /\ lastOp.kind = "close"
  /\ lastOp.conn = "c1"
  /\ lastOp.userId \in Users
  /\ readyState["c2"] = "CLOSED"
  /\ userId["c2"] = NULL
  /\ subscriptions = EmptyMap

\* C22 (as stated): once gracefulShutdown has handled the signal, and until
\* the process has exited, the timer of the sweep is stopped, no connection
\* is open and the registry has no entry.
Orig_C22 ==
  (gracefulShutdown = "done" /\ ~exited) =>
    /\ sweepTimer # "active"
    /\ \A c \in Conns : readyState[c] \notin {"OPEN", "CLOSING"}
    /\ subscriptions = EmptyMap

\* the closed enumeration PresenceStatus
PresenceStatus == {"online", "away", "busy"}

\* C23 (as stated): every record in the store has a status of the
\* enumeration {online, away, busy}.
Orig_C23 == \A u \in DOMAIN store : store[u].status \in PresenceStatus

\* C24 (as stated): a heartbeat without ttlMs, over the WebSocket or over
\* HTTP, stores a record with expiresAt = now + max(1000, configured default
\* TTL), now being the record's lastSeen.
Orig_C24 ==
  (lastOp.kind \in {"heartbeat", "http-heartbeat"} /\ lastOp.ttlMs = Undefined) =>
    store[lastOp.userId].expiresAt =
      store[lastOp.userId].lastSeen + Max(MIN_TTL, storeTtlMs)

\* C25 (as stated): the user a connection is bound to is the userId of its
\* most recent heartbeat (a heartbeat on the connection binds it, no other
\* step changes the binding); and the close of a connection bound to u
\* removes the record of u only, leaves every other user's record unchanged
\* and pushes an update for no other user.
Orig_C25 ==
  [][\A c \in Conns :
       /\ userId'[c] = IF lastOp'.kind = "heartbeat" /\ lastOp'.conn = c
                       THEN lastOp'.userId
                       ELSE userId[c]
       /\ (lastOp'.kind = "close" /\ lastOp'.conn = c /\ userId[c] \in Users) =>
            /\ userId[c] \notin DOMAIN store'
            /\ \A v \in Users \ {userId[c]} :
                 /\ v \in DOMAIN store => (v \in DOMAIN store' /\ store'[v] = store[v])
                 /\ \A x \in Conns : Pushes(sent'[x], v) = {}
    ]_vars

\* the positions in msgs of the heartbeat-acks
Acks(msgs) == {i \in 1..Len(msgs) : msgs[i].type = "heartbeat-ack"}

\* C26: after every heartbeat message the store holds the record the
\* heartbeat wrote; the sender holds exactly one heartbeat-ack, naming the
\* userId, as its first message, and no other connection holds an ack; every
\* update pushed for the user comes after the ack on the sender's socket and
\* carries the lastSeen of the record now in the store.
Thm_C26 ==
  [][lastOp'.kind = "heartbeat" =>
       LET c == lastOp'.conn
           u == lastOp'.userId
       IN /\ u \in DOMAIN store'
          /\ store'[u].lastSeen = lastOp'.ret[1].lastSeen
          /\ store'[u].expiresAt = lastOp'.ret[1].expiresAt
          /\ Acks(sent'[c]) = {1}
          /\ sent'[c][1].userId = u
          /\ \A x \in Conns \ {c} : Acks(sent'[x]) = {}
          /\ \A x \in Conns :
               \A i \in Pushes(sent'[x], u) :
                 /\ x = c => i > 1
                 /\ sent'[x][i].users[1].lastSeen = store'[u].lastSeen
    ]_vars

\* c1, subscribed to a, has sent a heartbeat for a: it holds the ack, then the
\* update
Witness_C26 ==
  /\ lastOp.kind = "heartbeat"
  /\ lastOp.conn = "c1"
  /\ Watching("c1", lastOp.userId)
  /\ Len(sent["c1"]) = 2
  /\ sent["c1"][1].type = "heartbeat-ack"
  /\ sent["c1"][2].type = "friends-presence-update"
  /\ \E x \in Conns \ {"c1"} : Pushes(sent[x], lastOp.userId) # {}

\* C27: after an offline message for u the store has no record of u; every
\* open connection subscribed to u (whose send does not throw) holds exactly
\* one update for u, with status "offline", and no other connection holds
\* one; and when the store held a record of u that stays unexpired until the
\* handler ends, every such update carries the lastSeen of that record.
Thm_C27 ==
  [][lastOp'.kind = "offline" =>
       LET u == lastOp'.userId
       IN /\ u \notin DOMAIN store'
          /\ \A x \in Conns :
               IF Watching(x, u) /\ readyState[x] = "OPEN" /\ x \notin lastOp'.failed
               THEN OnePush(x, u, "offline")
               ELSE Pushes(sent'[x], u) = {}
          /\ (u \in DOMAIN store /\ store[u].expiresAt > now') =>
               \A x \in Conns :
                 \A i \in Pushes(sent'[x], u) :
                   sent'[x][i].users[1].lastSeen = store[u].lastSeen
    ]_vars

\* an offline message removed an unexpired record last seen before the
\* message arrived, and a subscriber holds the update with that lastSeen
Witness_C27 ==
  /\ lastOp.kind = "offline"
  /\ lastOp.prior # <<>>
  /\ lastOp.prior[1].expiresAt > now
  /\ lastOp.prior[1].lastSeen < lastOp.t
  /\ lastOp.userId \notin DOMAIN store
  /\ \E x \in Conns :
       /\ Pushes(sent[x], lastOp.userId) # {}
       /\ \A i \in Pushes(sent[x], lastOp.userId) :
            sent[x][i].users[1].lastSeen = lastOp.prior[1].lastSeen

\* the handlers that answer from a read of the store (getOne or getMany)
StoreRead ==
  lastOp.kind \in {"http-get", "http-get-many", "query-presence", "subscribe-friends"}

\* C28 (as stated): every snapshot a read of the store returns has isOnline
\* true and ttlMs >= 1, and no reply built from a read lists a user with
\* status "offline".
Orig_C28 ==
  StoreRead =>
    /\ \A i \in 1..Len(lastOp.ret) :
         lastOp.ret[i].isOnline /\ lastOp.ret[i].ttlMs >= 1
    /\ \A x \in Conns :
         \A i \in 1..Len(sent[x]) :
           \A j \in 1..Len(sent[x][i].users) :
             sent[x][i].users[j].status # "offline"

\* the ChangeStreams and MongoClients that are open
OpenStreams == {s \in 1..MaxStreams : changeStreams[s] = "open"}

OpenClients == {k \in 1..MaxClients : mongoClients[k] = "open"}

\* C29 (as stated): at most one change stream and one Mongo client are open
\* and at most one restart timer is pending, in every state; and every
\* change of the collection bumps the directory version by exactly 1.
Orig_C29 ==
  /\ [](/\ Cardinality(OpenStreams) <= 1
        /\ Cardinality(OpenClients) <= 1
        /\ restartTimers <= 1)
  /\ [][lastOp'.kind = "watcher-change" => version' = version + 1]_vars

\* C30 (as stated): once stop() has been called no change stream is opened
\* and no restart is scheduled; once stop() has resolved no stream and no
\* client is open.
Orig_C30 ==
  /\ [][stopped =>
          /\ \A s \in 1..MaxStreams :
               changeStreams[s] = "none" => changeStreams'[s] = "none"
          /\ restartTimers' <= restartTimers
       ]_vars
  /\ [](stopReturned => (OpenStreams = {} /\ OpenClients = {}))

\* the invites of inv that are pending from one user to another
pendingBetween(inv, from, to) ==
  {i \in 1..Len(inv) : /\ inv[i].status = "pending"
                       /\ inv[i].fromUserId = from
                       /\ inv[i].toUserId = to}

====
